---- MODULE Spec2Model ----
(***************************************************************************)
(* Model of src/weather_app.py: one run of the dashboard script.           *)
(*                                                                         *)
(* The script is sequential: sidebar (API key), key guard, two HTTP        *)
(* fetches, parsing of the current conditions, the forecast dataframe      *)
(* (prepare_forecast_df), the daily group-by, and the rendering steps.     *)
(*                                                                         *)
(* Numbers.  A temperature, rain volume or wind speed of the payload is a   *)
(* JSON number with one decimal, written as its integer count of tenths    *)
(* (28.1 degC is 281, 1.2 mm is 12); it stands for the float64 that number *)
(* parses to.  Sums and means are float64 values, computed with IEEE-754   *)
(* rounding (ties to even), as the group-by computes them.  The running    *)
(* sum of the group-by is compensated (Kahan) in current pandas and plain  *)
(* in older releases; `summation` says which the installed one does.       *)
(* Timestamps are epoch seconds; a date is the number of days since        *)
(* 1970-01-01 in the local zone of the process, as datetime.fromtimestamp  *)
(* computes it.                                                            *)
(*                                                                         *)
(* JSON.  A forecast item is a record of its values together with          *)
(* `absent` (the keys the object does not have) and `null` (the keys       *)
(* whose value is null).  The inputs of the model have null only for       *)
(* "wind" and "3h".                                                        *)
(***************************************************************************)
EXTENDS Integers, Sequences, FiniteSets, TLC

VARIABLES
    pc,         \* position of the script
    tz,         \* UTC offset (seconds) of the process's local zone
    summation,  \* running sum of the installed pandas: "plain" or "kahan"
    api_key,    \* line 86..91
    current,    \* payload of fetch_current_weather: [valid]
    forecast,   \* payload of fetch_forecast: [has_list, list]
    fetched,    \* the payloads obtained so far
    requests,   \* number of HTTP requests issued
    df_fore,    \* line 160
    daily,      \* lines 162..168
    short,      \* lines 230..231
    notices,    \* the st.warning and st.error notices shown
    rendered,   \* the panels rendered so far
    err         \* the uncaught exception that ended the run, if any

vars == <<pc, tz, summation, api_key, current, forecast, fetched, requests, df_fore,
          daily, short, notices, rendered, err>>

----------------------------------------------------------------------------
(* Bounds and constants *)

MaxLen == 3          \* longest enumerated forecast list
MaxLong == 14        \* longest regular 3-hourly forecast list
HeadLimit == 12      \* df_fore.head(12)
SecondsPerDay == 86400
Hour == 60 * 60
Step3h == 3 * Hour                   \* spacing of the 3-hourly forecast
Day0 == 20244 * SecondsPerDay        \* 2025-06-05 00:00:00 UTC

TzOffsets == {0, 19800}          \* UTC, and Asia/Kolkata (+05:30)
ApiKeys == {"", "k3y"}

----------------------------------------------------------------------------
(* Arithmetic helpers *)

MinOf(a, b) == IF a <= b THEN a ELSE b

RECURSIVE SeqMin(_)
SeqMin(s) == IF Len(s) = 1 THEN s[1]
             ELSE LET m == SeqMin(Tail(s)) IN IF s[1] <= m THEN s[1] ELSE m

RECURSIVE SeqMax(_)
SeqMax(s) == IF Len(s) = 1 THEN s[1]
             ELSE LET m == SeqMax(Tail(s)) IN IF s[1] >= m THEN s[1] ELSE m

Column(rows, c) == [i \in 1..Len(rows) |-> rows[i][c]]

----------------------------------------------------------------------------
(* float64 arithmetic, as pandas computes "mean" and "sum" (lines 162..166). *)
(* A float64 value is the dyadic rational (-1)^neg * m * 2^e, held in        *)
(* canonical form: m odd, or m = 0 with e = 0.  m is a natural number        *)
(* written as its limbs in base 2^15, least significant first, no high zero  *)
(* limb.  Zero carries no sign; subnormals, infinities and NaN do not arise  *)
(* for the magnitudes of weather readings.                                   *)

LimbBits == 15
Base == 32768
MantissaBits == 53
GuardLimbs == 5

Pow2(n) == 2 ^ n

\* drop high zero limbs
RECURSIVE BTrim(_)
BTrim(a) ==
    IF a = <<>> THEN <<>>
    ELSE IF a[Len(a)] = 0 THEN BTrim(SubSeq(a, 1, Len(a) - 1))
    ELSE a

RECURSIVE BFromInt(_)
BFromInt(n) == IF n = 0 THEN <<>> ELSE <<n % Base>> \o BFromInt(n \div Base)

RECURSIVE BAddC(_, _, _)
BAddC(a, b, c) ==
    IF a = <<>> /\ b = <<>> THEN (IF c = 0 THEN <<>> ELSE <<c>>)
    ELSE LET x == (IF a = <<>> THEN 0 ELSE a[1]) + (IF b = <<>> THEN 0 ELSE b[1]) + c
         IN  <<x % Base>> \o BAddC(IF a = <<>> THEN <<>> ELSE Tail(a),
                                   IF b = <<>> THEN <<>> ELSE Tail(b),
                                   x \div Base)

BAdd(a, b) == BAddC(a, b, 0)

\* a - b - c for a >= b + c, limbs not yet trimmed
RECURSIVE BSubB(_, _, _)
BSubB(a, b, c) ==
    IF a = <<>> THEN <<>>
    ELSE LET x == a[1] - (IF b = <<>> THEN 0 ELSE b[1]) - c
         IN  <<x % Base>> \o BSubB(Tail(a), IF b = <<>> THEN <<>> ELSE Tail(b),
                                   IF x < 0 THEN 1 ELSE 0)

BSub(a, b) == BTrim(BSubB(a, b, 0))

\* -1, 0 or 1 as a < b, a = b or a > b
RECURSIVE BCmpFrom(_, _, _)
BCmpFrom(a, b, i) ==
    IF i = 0 THEN 0
    ELSE IF a[i] < b[i] THEN -1
    ELSE IF a[i] > b[i] THEN 1
    ELSE BCmpFrom(a, b, i - 1)

BCmp(a, b) ==
    IF Len(a) < Len(b) THEN -1
    ELSE IF Len(a) > Len(b) THEN 1
    ELSE BCmpFrom(a, b, Len(a))

\* a * k + c for 0 <= k, c < Base
RECURSIVE BMulSmall(_, _, _)
BMulSmall(a, k, c) ==
    IF a = <<>> THEN (IF c = 0 THEN <<>> ELSE <<c>>)
    ELSE LET x == a[1] * k + c
         IN  <<x % Base>> \o BMulSmall(Tail(a), k, x \div Base)

\* quotient (untrimmed) and remainder of a by k, 0 < k <= Base
RECURSIVE BDivRec(_, _)
BDivRec(a, k) ==
    IF a = <<>> THEN [q |-> <<>>, r |-> 0]
    ELSE LET hi  == BDivRec(Tail(a), k)
             cur == hi.r * Base + a[1]
         IN  [q |-> <<cur \div k>> \o hi.q, r |-> cur % k]

BDivSmall(a, k) ==
    LET d == BDivRec(a, k) IN [q |-> BTrim(d.q), r |-> d.r]

BShlLimbs(a, n) == IF a = <<>> THEN <<>> ELSE [i \in 1..n |-> 0] \o a

\* a * 2^bits
BShl(a, bits) ==
    BShlLimbs(BMulSmall(a, Pow2(bits % LimbBits), 0), bits \div LimbBits)

\* floor(a / 2^bits)
BShr(a, bits) ==
    LET n == bits \div LimbBits
    IN  IF n >= Len(a) THEN <<>>
        ELSE BDivSmall(SubSeq(a, n + 1, Len(a)), Pow2(bits % LimbBits)).q

RECURSIVE SmallBitLen(_)
SmallBitLen(x) == IF x = 0 THEN 0 ELSE 1 + SmallBitLen(x \div 2)

BBitLen(a) ==
    IF a = <<>> THEN 0 ELSE (Len(a) - 1) * LimbBits + SmallBitLen(a[Len(a)])

BIsOdd(a) == a # <<>> /\ a[1] % 2 = 1

RECURSIVE TrailingZeros(_)
TrailingZeros(x) == IF x % 2 = 1 THEN 0 ELSE 1 + TrailingZeros(x \div 2)

FZero == [neg |-> FALSE, m |-> <<>>, e |-> 0]

\* the canonical form of (-1)^neg * m * 2^e
RECURSIVE DCanon(_, _, _)
DCanon(neg, m, e) ==
    IF m = <<>> THEN FZero
    ELSE IF m[1] = 0 THEN DCanon(neg, Tail(m), e + LimbBits)
    ELSE LET z == TrailingZeros(m[1])
         IN  [neg |-> neg,
              m   |-> IF z = 0 THEN m ELSE BDivSmall(m, Pow2(z)).q,
              e   |-> e + z]

DNeg(x) == IF x.m = <<>> THEN x ELSE [x EXCEPT !.neg = ~x.neg]

\* x + y, exactly
DAddExact(x, y) ==
    LET e  == IF x.e <= y.e THEN x.e ELSE y.e
        mx == BShl(x.m, x.e - e)
        my == BShl(y.m, y.e - e)
    IN  IF x.m = <<>> THEN y
        ELSE IF y.m = <<>> THEN x
        ELSE IF x.neg = y.neg THEN DCanon(x.neg, BAdd(mx, my), e)
        ELSE IF BCmp(mx, my) >= 0 THEN DCanon(x.neg, BSub(mx, my), e)
        ELSE DCanon(y.neg, BSub(my, mx), e)

\* x <= y
DLe(x, y) == ~DAddExact(y, DNeg(x)).neg

\* (-1)^neg * m * 2^e rounded to a 53-bit significand, ties to even
Round53(neg, m, e) ==
    LET len   == BBitLen(m)
        shift == len - MantissaBits
        q     == BShr(m, shift)
        c     == BCmp(BSub(m, BShl(q, shift)), BShl(<<1>>, shift - 1))
        up    == c > 0 \/ (c = 0 /\ BIsOdd(q))
    IN  IF len <= MantissaBits THEN DCanon(neg, m, e)
        ELSE DCanon(neg, IF up THEN BAdd(q, <<1>>) ELSE q, e + shift)

\* float64 addition and subtraction
FAdd(x, y) == LET s == DAddExact(x, y) IN Round53(s.neg, s.m, s.e)

FSub(x, y) == FAdd(x, DNeg(y))

\* float64 division by a positive integer n < 2^15: the quotient is taken
\* with 75 extra bits and a sticky bit for the remainder, then rounded
FDivInt(x, n) ==
    LET d == BDivSmall(BShlLimbs(x.m, GuardLimbs), n)
        s == IF d.r = 0 THEN 0 ELSE 1
    IN  IF x.m = <<>> THEN FZero
        ELSE Round53(x.neg, BMulSmall(d.q, 2, s), x.e - GuardLimbs * LimbBits - 1)

\* the float64 of an integer
FromInt(n) == DCanon(n < 0, BFromInt(IF n < 0 THEN -n ELSE n), 0)

\* the float64 a JSON number of k tenths parses to
FromTenths(k) == FDivInt(FromInt(k), 10)

\* plain running sum, with the total so far
RECURSIVE PlainSum(_, _)
PlainSum(s, acc) ==
    IF s = <<>> THEN acc ELSE PlainSum(Tail(s), FAdd(acc, Head(s)))

\* compensated (Kahan) running sum, with the total and compensation so far
RECURSIVE KahanSum(_, _, _)
KahanSum(s, acc, comp) ==
    IF s = <<>> THEN acc
    ELSE LET y == FSub(Head(s), comp)
             t == FAdd(acc, y)
         IN  KahanSum(Tail(s), t, FSub(FSub(t, acc), y))

Summations == {"plain", "kahan"}

\* the float64 running sum of a sequence of float64 values
FloatSum(s, how) ==
    IF how = "kahan" THEN KahanSum(s, FZero, FZero) ELSE PlainSum(s, FZero)

\* the float64 values of a column of tenths
TenthsColumn(rows, c) == [i \in 1..Len(rows) |-> FromTenths(rows[i][c])]

\* the float64 values of a column of integers
IntColumn(rows, c) == [i \in 1..Len(rows) |-> FromInt(rows[i][c])]

----------------------------------------------------------------------------
(* Calendar: datetime.fromtimestamp, .date(), .time(), strftime *)

\* naive local datetime of an epoch timestamp, as seconds since the local epoch
fromtimestamp(ts, off) == ts + off

DateOf(local) == local \div SecondsPerDay

TimeOf(local) == local % SecondsPerDay

WeekdayAbbr == <<"Mon", "Tue", "Wed", "Thu", "Fri", "Sat", "Sun">>

MonthAbbr == <<"Jan", "Feb", "Mar", "Apr", "May", "Jun",
               "Jul", "Aug", "Sep", "Oct", "Nov", "Dec">>

\* proleptic Gregorian month and day of a day number (days since 1970-01-01)
Civil(z) ==
    LET zz  == z + 719468
        era == zz \div 146097
        doe == zz - era * 146097
        yoe == (doe - doe \div 1460 + doe \div 36524 - doe \div 146096) \div 365
        doy == doe - (365 * yoe + yoe \div 4 - yoe \div 100)
        mp  == (5 * doy + 2) \div 153
    IN  [day   |-> doy - (153 * mp + 2) \div 5 + 1,
         month |-> IF mp < 10 THEN mp + 3 ELSE mp - 9]

\* d.strftime("%a %d %b"): weekday, two-digit day, month
DateStr(d) ==
    LET c == Civil(d)
    IN  [a  |-> WeekdayAbbr[((d + 3) % 7) + 1],
         d1 |-> c.day \div 10, d0 |-> c.day % 10,
         b  |-> MonthAbbr[c.month]]

\* dt.strftime("%d %b %H:%M")
TimeStr(local) ==
    LET c == Civil(DateOf(local))
        t == TimeOf(local)
    IN  [d1 |-> c.day \div 10, d0 |-> c.day % 10, b |-> MonthAbbr[c.month],
         hh |-> t \div 3600, mm |-> (t % 3600) \div 60]

\* str.title() on the condition labels of the inputs
Title(s) ==
    CASE s = "clear sky"  -> "Clear Sky"
      [] s = "light rain" -> "Light Rain"
      [] OTHER            -> s

----------------------------------------------------------------------------
(* Forecast items (the elements of forecast_json["list"]) *)

NoKeys == {}

Item(ts, temp, humidity, wind, rain3h, desc, absent, null) ==
    [dt |-> ts, temp |-> temp, humidity |-> humidity, wind |-> wind,
     rain3h |-> rain3h, desc |-> desc, absent |-> absent, null |-> null]

\* well-formed samples: rain of 0.1 and 0.2 mm, rain absent, rain without
\* "3h"; temperatures 28.1, 30.0, 27.3 and 29.0 degC; the fourth lies on the
\* next local day at +05:30
GoodItems ==
    { Item(Day0 +  6 * Hour, 281, 60, 31, 1, "light rain", NoKeys, NoKeys),
      Item(Day0 +  9 * Hour, 300, 65, 25, 0, "clear sky",  {"rain", "3h"}, NoKeys),
      Item(Day0 + 12 * Hour, 273, 80, 12, 2, "light rain", NoKeys, NoKeys),
      Item(Day0 + 21 * Hour, 290, 70, 40, 0, "clear sky",  {"3h"}, NoKeys) }

\* samples with a required field missing, and a sample two days later, at
\* -1.5 degC, whose wind speed and rain volume are null
BadItems ==
    { Item(Day0 + 6 * Hour, 280, 60, 31, 5, "clear sky", {k}, NoKeys) :
          k \in {"dt", "temp", "humidity", "wind", "desc"} }
    \cup { Item(Day0 + 51 * Hour, -15, 55, 0, 0, "light rain", NoKeys,
                {"wind", "3h"}) }

Items == GoodItems \cup BadItems

RequiredKeys == {"dt", "temp", "humidity", "wind", "desc"}

\* the item has every required field, with a value
WellFormed(item) ==
    /\ item.absent \cap RequiredKeys = {}
    /\ item.null \cap RequiredKeys = {}

\* the 8-sample scenario: four samples on 2025-06-05, four on 2025-06-06
ScenarioTemps == <<280, 300, 290, 310, 270, 260, 280, 290>>
ScenarioRains == <<0, 12, 0, 5, 20, 0, 0, 3>>
ScenarioHums  == <<60, 62, 64, 66, 70, 72, 74, 76>>

Scenario ==
    [i \in 1..8 |->
        Item(Day0 + ((i - 1) \div 4) * SecondsPerDay + (6 + 3 * ((i - 1) % 4)) * Hour,
             ScenarioTemps[i], ScenarioHums[i], 20, ScenarioRains[i], "clear sky",
             IF ScenarioRains[i] = 0 THEN {"rain", "3h"} ELSE NoKeys, NoKeys)]

\* a regular forecast: n samples, one every three hours
LongList(n) ==
    [i \in 1..n |->
        Item(Day0 + (i - 1) * Step3h, 250 + 10 * (i % 5), 50 + i, 10 + i,
             IF i % 3 = 0 THEN i ELSE 0, "clear sky",
             IF i % 3 = 1 THEN {"rain", "3h"} ELSE NoKeys, NoKeys)]

ItemLists ==
    UNION {[1..n -> Items] : n \in 0..MaxLen}
    \cup {Scenario}
    \cup {LongList(n) : n \in 0..MaxLong}

\* the JSON body of the forecast endpoint
ForecastPayloads ==
    {[has_list |-> FALSE, list |-> <<>>]}
    \cup {[has_list |-> TRUE, list |-> l] : l \in ItemLists}

\* the JSON body of the current-conditions endpoint: complete or not
CurrentPayloads == {[valid |-> TRUE], [valid |-> FALSE]}

----------------------------------------------------------------------------
(* prepare_forecast_df, lines 117..133 *)

NoError == [type |-> "none", at |-> "none", key |-> "none"]

KeyError(at, key) == [type |-> "KeyError", at |-> at, key |-> key]

\* forecast_json.get("list", [])
GetList(forecast_json) ==
    IF forecast_json.has_list THEN forecast_json.list ELSE <<>>

\* lines 125..128: 0.0 unless the item has rain["3h"] with a truthy value
RainOf(item) ==
    IF /\ "rain" \notin item.absent
       /\ "3h" \notin item.absent
       /\ "3h" \notin item.null
       /\ item.rain3h # 0
    THEN item.rain3h
    ELSE 0

\* the exception the loop body raises on the item, in the order of its lookups
ItemError(item) ==
    CASE "dt" \in item.absent       -> KeyError("prepare", "dt")
      [] "temp" \in item.absent     -> KeyError("prepare", "temp")
      [] "humidity" \in item.absent -> KeyError("prepare", "humidity")
      [] "wind" \in item.absent     -> KeyError("prepare", "wind")
      [] "desc" \in item.absent     -> KeyError("prepare", "description")
      [] OTHER                      -> NoError

\* lines 121..131: the row appended for an item
PrepareRow(item, off) ==
    LET local == fromtimestamp(item.dt, off)
    IN  [dt |-> local, date |-> DateOf(local), time |-> TimeOf(local),
         temp |-> item.temp, humidity |-> item.humidity,
         wind |-> item.wind, rain |-> RainOf(item),
         desc |-> Title(item.desc),
         nan |-> item.null \cap {"wind"}]

RowColumns == {"dt", "date", "time", "temp", "humidity", "wind", "rain", "desc"}

\* pd.DataFrame(rows): a frame of no rows has no columns
DataFrame(rows) ==
    [columns |-> IF rows = <<>> THEN {} ELSE RowColumns, rows |-> rows]

\* lines 119..133, skipping the samples that carry no rain volume
RECURSIVE PrepareLoopSkipDry(_, _, _)
PrepareLoopSkipDry(items, off, rows) ==
    IF items = <<>> THEN [err |-> NoError, df |-> DataFrame(rows)]
    ELSE IF ItemError(Head(items)) # NoError
         THEN [err |-> ItemError(Head(items)), df |-> DataFrame(<<>>)]
    ELSE IF {"rain", "3h"} \cap Head(items).absent # {}
         THEN PrepareLoopSkipDry(Tail(items), off, rows)
    ELSE PrepareLoopSkipDry(Tail(items), off,
                            Append(rows, PrepareRow(Head(items), off)))

\* lines 119..133: the loop over the items, with the rows built so far
RECURSIVE PrepareLoop(_, _, _)
PrepareLoop(items, off, rows) ==
    IF items = <<>> THEN [err |-> NoError, df |-> DataFrame(rows)]
    ELSE IF ItemError(Head(items)) # NoError
         THEN [err |-> ItemError(Head(items)), df |-> DataFrame(<<>>)]
    ELSE PrepareLoop(Tail(items), off,
                     Append(rows, PrepareRow(Head(items), off)))

prepare_forecast_df(forecast_json, off) ==
    PrepareLoop(GetList(forecast_json), off, <<>>)

----------------------------------------------------------------------------
(* The daily summary, lines 162..168 *)

\* "mean": the float64 running sum divided by the count
AggMean(s, how) == FDivInt(FloatSum(s, how), Len(s))

\* "max" where "min" was meant
AggMinAsMax(s) == SeqMax(s)

\* "min"
AggMin(s) == SeqMin(s)

\* "max"
AggMax(s) == SeqMax(s)

\* the largest of a sequence of float64 values
RECURSIVE FloatMax(_)
FloatMax(s) == IF Len(s) = 1 THEN s[1]
               ELSE LET m == FloatMax(Tail(s)) IN IF DLe(m, s[1]) THEN s[1] ELSE m

\* "max" where "sum" was meant
AggSumAsMax(s, how) == FloatMax(s)

\* "sum": the float64 running sum
AggSum(s, how) == FloatSum(s, how)

\* the keys in order of first appearance (groupby with sort=False)
RECURSIVE GroupKeysUnsorted(_)
GroupKeysUnsorted(rows) ==
    IF rows = <<>> THEN <<>>
    ELSE LET init == GroupKeysUnsorted(SubSeq(rows, 1, Len(rows) - 1))
             d == rows[Len(rows)].date
         IN  IF \E i \in 1..Len(init) : init[i] = d THEN init ELSE Append(init, d)

\* ascending sequence of a set of integers
RECURSIVE SortedSeq(_)
SortedSeq(S) ==
    IF S = {} THEN <<>>
    ELSE LET m == CHOOSE x \in S : \A y \in S : x <= y
         IN  <<m>> \o SortedSeq(S \ {m})

\* groupby("date"): the group keys, sorted (sort=True is the default)
GroupKeys(rows) == SortedSeq({rows[i].date : i \in 1..Len(rows)})

\* the rows of one group, in frame order
Group(rows, d) == SelectSeq(rows, LAMBDA r : r.date = d)

\* the mean over the whole frame in place of the group
DailyRowFrameMean(rows, d, how) ==
    LET g == Group(rows, d)
    IN  [date          |-> d,
         temp_mean     |-> FDivInt(FloatSum(TenthsColumn(g, "temp"), how), Len(rows)),
         temp_min      |-> AggMin(Column(g, "temp")),
         temp_max      |-> AggMax(Column(g, "temp")),
         rain_sum      |-> AggSum(TenthsColumn(g, "rain"), how),
         humidity_mean |-> AggMean(IntColumn(g, "humidity"), how),
         date_str      |-> DateStr(d)]

\* lines 162..168: the aggregated row of one date.  temp_mean, rain_sum and
\* humidity_mean are float64 values; temp_min and temp_max are elements of
\* the column, in tenths like the input
DailyRow(rows, d, how) ==
    LET g == Group(rows, d)
    IN  [date          |-> d,
         temp_mean     |-> AggMean(TenthsColumn(g, "temp"), how),
         temp_min      |-> AggMin(Column(g, "temp")),
         temp_max      |-> AggMax(Column(g, "temp")),
         rain_sum      |-> AggSum(TenthsColumn(g, "rain"), how),
         humidity_mean |-> AggMean(IntColumn(g, "humidity"), how),
         date_str      |-> DateStr(d)]

\* lines 162..168; groupby raises KeyError when the frame has no "date" column
daily_summary(df, how) ==
    IF "date" \notin df.columns
    THEN [err |-> KeyError("daily", "date"), rows |-> <<>>]
    ELSE LET keys == GroupKeys(df.rows)
         IN  [err  |-> NoError,
              rows |-> [k \in 1..Len(keys) |-> DailyRow(df.rows, keys[k], how)]]

----------------------------------------------------------------------------
(* The detail window, lines 230..231 *)

\* the last n rows
tail(rows, n) == SubSeq(rows, Len(rows) - MinOf(n, Len(rows)) + 1, Len(rows))

\* DataFrame.head(n)
head(rows, n) == SubSeq(rows, 1, MinOf(n, Len(rows)))

\* lines 230..231; short["dt"] raises KeyError when the frame has no column
detail_window(df) ==
    IF "dt" \notin df.columns
    THEN [err |-> KeyError("detail", "dt"), rows |-> <<>>]
    ELSE LET h == head(df.rows, HeadLimit)
         IN  [err  |-> NoError,
              rows |-> [i \in 1..Len(h) |->
                          [dt |-> h[i].dt, date |-> h[i].date, time |-> h[i].time,
                           temp |-> h[i].temp, humidity |-> h[i].humidity,
                           wind |-> h[i].wind, rain |-> h[i].rain,
                           desc |-> h[i].desc, nan |-> h[i].nan,
                           time_str |-> TimeStr(h[i].dt)]]]

----------------------------------------------------------------------------
(* The run of the script *)

NoPayload == [has_list |-> FALSE, list |-> <<>>]

NoFrame == [columns |-> {}, rows |-> <<>>]

Init ==
    /\ pc = "sidebar"
    /\ tz \in TzOffsets
    /\ summation \in Summations
    /\ api_key = ""
    /\ current = [valid |-> FALSE]
    /\ forecast = NoPayload
    /\ fetched = [current |-> "none", forecast |-> "none"]
    /\ requests = 0
    /\ df_fore = NoFrame
    /\ daily = <<>>
    /\ short = <<>>
    /\ notices = {}
    /\ rendered = {}
    /\ err = NoError

\* what line 87 finds: no secrets file at all, a file without the key, or a
\* file with it
SecretsStates == {"no_file", "without_key", "with_key"}

\* `in st.secrets` parses the secrets file, and raises when there is none:
\* FileNotFoundError, or StreamlitSecretNotFoundError in later releases
SecretsErrors == {"FileNotFoundError", "StreamlitSecretNotFoundError"}

SecretsError(type) == [type |-> type, at |-> "sidebar", key |-> "none"]

\* lines 82..99: the key is the secret, or else the text of the input field;
\* without a secrets file the lookup of line 87 raises and the run ends there,
\* with the "" of line 86 as the key
Sidebar ==
    /\ pc = "sidebar"
    /\ \E secrets \in SecretsStates :
        CASE secrets = "no_file" ->
                /\ api_key' = ""
                /\ \E type \in SecretsErrors : err' = SecretsError(type)
                /\ pc' = "crashed"
          [] secrets = "with_key" ->
                /\ \E secret \in ApiKeys : api_key' = secret
                /\ err' = err
                /\ pc' = "guard"
          [] secrets = "without_key" ->
                /\ \E text \in ApiKeys : api_key' = text
                /\ err' = err
                /\ pc' = "guard"
    /\ UNCHANGED <<tz, summation, notices, current, forecast, fetched, requests, df_fore, daily,
                   short, rendered>>

\* lines 136..138: warn and stop when the key is empty
ApiKeyGuard ==
    /\ pc = "guard"
    /\ IF api_key = ""
       THEN /\ notices' = notices \cup {"warning_no_key"}
            /\ pc' = "stopped"
       ELSE /\ notices' = notices
            /\ pc' = "fetch_current"
    /\ UNCHANGED <<tz, summation, api_key, current, forecast, fetched, requests, df_fore,
                   daily, short, rendered, err>>

FetchOutcomes == {"ok", "http_error", "error"}

\* the notice of the except clause that catches the outcome, lines 144..149
ErrorNotice(outcome) ==
    IF outcome = "http_error" THEN "error_http" ELSE "error_fetch"

\* line 142, and lines 144..149 when it raises
FetchCurrent ==
    /\ pc = "fetch_current"
    /\ requests' = requests + 1
    /\ \E outcome \in FetchOutcomes :
        /\ fetched' = [fetched EXCEPT !.current = outcome]
        /\ IF outcome = "ok"
           THEN /\ \E body \in CurrentPayloads : current' = body
                /\ notices' = notices
                /\ pc' = "fetch_forecast"
           ELSE /\ current' = current
                /\ notices' = notices \cup {ErrorNotice(outcome)}
                /\ pc' = "stopped"
    /\ UNCHANGED <<tz, summation, api_key, forecast, df_fore, daily, short, rendered, err>>

\* line 143 with the exception swallowed
FetchForecastIgnoreError ==
    /\ pc = "fetch_forecast"
    /\ requests' = requests + 1
    /\ \E outcome \in FetchOutcomes :
        /\ fetched' = [fetched EXCEPT !.forecast = outcome]
        /\ IF outcome = "ok"
           THEN \E body \in ForecastPayloads : forecast' = body
           ELSE forecast' = forecast
    /\ pc' = "parse_current"
    /\ UNCHANGED <<tz, summation, api_key, current, df_fore, daily, short, notices,
                   rendered, err>>

\* line 143, and lines 144..149 when it raises
FetchForecast ==
    /\ pc = "fetch_forecast"
    /\ requests' = requests + 1
    /\ \E outcome \in FetchOutcomes :
        /\ fetched' = [fetched EXCEPT !.forecast = outcome]
        /\ IF outcome = "ok"
           THEN /\ \E body \in ForecastPayloads : forecast' = body
                /\ notices' = notices
                /\ pc' = "parse_current"
           ELSE /\ forecast' = forecast
                /\ notices' = notices \cup {ErrorNotice(outcome)}
                /\ pc' = "stopped"
    /\ UNCHANGED <<tz, summation, api_key, current, df_fore, daily, short, rendered, err>>

\* lines 152..157: the lookups raise KeyError on an incomplete payload
ParseCurrent ==
    /\ pc = "parse_current"
    /\ IF current.valid
       THEN /\ pc' = "prepare"
            /\ err' = err
       ELSE /\ pc' = "crashed"
            /\ err' = KeyError("parse_current", "main")
    /\ UNCHANGED <<tz, summation, api_key, current, forecast, fetched, requests, df_fore,
                   daily, short, notices, rendered>>

\* line 160
PrepareForecast ==
    /\ pc = "prepare"
    /\ LET r == prepare_forecast_df(forecast, tz)
       IN  IF r.err = NoError
           THEN /\ df_fore' = r.df
                /\ err' = err
                /\ pc' = "daily"
           ELSE /\ df_fore' = df_fore
                /\ err' = r.err
                /\ pc' = "crashed"
    /\ UNCHANGED <<tz, summation, api_key, current, forecast, fetched, requests, daily,
                   short, notices, rendered>>

\* lines 162..168
Daily ==
    /\ pc = "daily"
    /\ LET r == daily_summary(df_fore, summation)
       IN  IF r.err = NoError
           THEN /\ daily' = r.rows
                /\ err' = err
                /\ pc' = "cards"
           ELSE /\ daily' = daily
                /\ err' = r.err
                /\ pc' = "crashed"
    /\ UNCHANGED <<tz, summation, api_key, current, forecast, fetched, requests, df_fore,
                   short, notices, rendered>>

\* lines 171..192
RenderCards ==
    /\ pc = "cards"
    /\ rendered' = rendered \cup {"cards"}
    /\ pc' = "chart"
    /\ UNCHANGED <<tz, summation, api_key, current, forecast, fetched, requests, df_fore,
                   daily, short, notices, err>>

\* lines 199..223
RenderChart ==
    /\ pc = "chart"
    /\ rendered' = rendered \cup {"chart"}
    /\ pc' = "detail"
    /\ UNCHANGED <<tz, summation, api_key, current, forecast, fetched, requests, df_fore,
                   daily, short, notices, err>>

\* lines 227..235
RenderDetail ==
    /\ pc = "detail"
    /\ LET r == detail_window(df_fore)
       IN  IF r.err = NoError
           THEN /\ short' = r.rows
                /\ rendered' = rendered \cup {"table"}
                /\ err' = err
                /\ pc' = "summary"
           ELSE /\ short' = short
                /\ rendered' = rendered
                /\ err' = r.err
                /\ pc' = "crashed"
    /\ UNCHANGED <<tz, summation, api_key, current, forecast, fetched, requests, df_fore,
                   daily, notices>>

\* lines 237..256
RenderSummary ==
    /\ pc = "summary"
    /\ rendered' = rendered \cup {"summary"}
    /\ pc' = "done"
    /\ UNCHANGED <<tz, summation, api_key, current, forecast, fetched, requests, df_fore,
                   daily, short, notices, err>>

Next ==
    \/ Sidebar
    \/ ApiKeyGuard
    \/ FetchCurrent
    \/ FetchForecast
    \/ ParseCurrent
    \/ PrepareForecast
    \/ Daily
    \/ RenderCards
    \/ RenderChart
    \/ RenderDetail
    \/ RenderSummary

Spec == Init /\ [][Next]_vars

----------------------------------------------------------------------------
(* Properties *)

\* the forecast sample list of the run
Samples == IF forecast.has_list THEN forecast.list ELSE <<>>

SampleIdx == 1..Len(Samples)

\* the calendar date of sample i in the local zone
SampleDate(i) == (Samples[i].dt + tz) \div SecondsPerDay

SampleDates == {SampleDate(i) : i \in SampleIdx}

\* the samples dated d
OnDate(d) == {i \in SampleIdx : SampleDate(i) = d}

\* the sample carries no rain volume
Dry(i) == \/ "rain" \in Samples[i].absent
          \/ "3h" \in Samples[i].absent
          \/ "3h" \in Samples[i].null

\* the 3-hour rain volume of sample i in tenths, 0 when it carries none
SampleRain(i) == IF Dry(i) THEN 0 ELSE Samples[i].rain3h

SampleTemp(i) == Samples[i].temp

SampleHumidity(i) == Samples[i].humidity

\* the float64 values of the samples
TempValues == [i \in SampleIdx |-> FromTenths(SampleTemp(i))]

RainValues == [i \in SampleIdx |-> FromTenths(SampleRain(i))]

HumidityValues == [i \in SampleIdx |-> FromInt(SampleHumidity(i))]

\* the exact sum of the values f[i], i in I
RECURSIVE ExactSum(_, _)
ExactSum(I, f) ==
    IF I = {} THEN FZero
    ELSE LET i == CHOOSE x \in I : TRUE
         IN  DAddExact(f[i], ExactSum(I \ {i}, f))

\* the indices of I in input order
RECURSIVE InOrder(_)
InOrder(I) ==
    IF I = {} THEN <<>>
    ELSE LET i == CHOOSE x \in I : \A y \in I : x <= y
         IN  <<i>> \o InOrder(I \ {i})

\* the float64 running sum of the values f[i], i in I, in input order
RunningSum(I, f) ==
    LET ix == InOrder(I)
    IN  FloatSum([k \in 1..Len(ix) |-> f[ix[k]]], summation)

\* the float64 mean of the values f[i], i in I
RunningMean(I, f) == FDivInt(RunningSum(I, f), Cardinality(I))

\* n * x, exactly
DMulInt(x, n) == DCanon(x.neg, BMulSmall(x.m, n, 0), x.e)

\* x * 2^k, exactly
DScale(x, k) == IF x.m = <<>> THEN x ELSE [x EXCEPT !.e = @ + k]

DAbs(x) == [x EXCEPT !.neg = FALSE]

DSub(x, y) == DAddExact(x, DNeg(y))

\* the daily summary has been computed
Aggregated == pc \in {"cards", "chart", "detail", "summary", "done"}

\* the dataframe has been built
Prepared == pc = "daily" \/ Aggregated

\* the detail window has been built
Windowed == pc \in {"summary", "done"}

DailyIdx == 1..Len(daily)

DailyRain == [k \in DailyIdx |-> daily[k].rain_sum]

\* temp_min and temp_max of row k are the least and greatest temperature of I
MinMaxOf(k, I) ==
    /\ \E i \in I : daily[k].temp_min = SampleTemp(i)
    /\ \A i \in I : daily[k].temp_min <= SampleTemp(i)
    /\ \E i \in I : daily[k].temp_max = SampleTemp(i)
    /\ \A i \in I : daily[k].temp_max >= SampleTemp(i)

\* row k holds the exact mean and sum of the samples dated d
RowIsExactStatsOf(k, d) ==
    LET I == OnDate(d)
        n == Cardinality(I)
        r == daily[k]
    IN  /\ r.date = d
        /\ DMulInt(r.temp_mean, n) = ExactSum(I, TempValues)
        /\ MinMaxOf(k, I)
        /\ r.rain_sum = ExactSum(I, RainValues)
        /\ DMulInt(r.humidity_mean, n) = ExactSum(I, HumidityValues)

\* row k holds the float64 mean and sum of the samples dated d
RowIsStatsOf(k, d) ==
    LET I == OnDate(d)
        r == daily[k]
    IN  /\ r.date = d
        /\ r.temp_mean = RunningMean(I, TempValues)
        /\ MinMaxOf(k, I)
        /\ r.rain_sum = RunningSum(I, RainValues)
        /\ r.humidity_mean = RunningMean(I, HumidityValues)

\* the rows of the 8-sample scenario
ScenarioRows ==
    /\ Len(daily) = 2
    /\ daily[1].date = 20244
    /\ daily[1].temp_mean = FromTenths(295)
    /\ daily[1].temp_min = 280 /\ daily[1].temp_max = 310
    /\ daily[1].rain_sum = FromTenths(17)
    /\ daily[2].date = 20245
    /\ daily[2].temp_mean = FromTenths(275)
    /\ daily[2].temp_min = 260 /\ daily[2].temp_max = 290
    /\ daily[2].rain_sum = FromTenths(23)

\* C1 as stated: for every date d of the input, the daily row of d holds the
\* arithmetic mean, the minimum and the maximum of the temperatures of exactly
\* the samples dated d, the plain sum of their rain volumes and the arithmetic
\* mean of their humidities, all exactly; the 8-sample scenario yields mean
\* 29.5, min 28, max 31, rain 1.7 and mean 27.5, min 26, max 29, rain 2.3.
C1_ExactStatistics ==
    Aggregated =>
        /\ \A d \in SampleDates : \E k \in DailyIdx : RowIsExactStatsOf(k, d)
        /\ Samples = Scenario => ScenarioRows

\* C1 as amended: for every date d of the input, the daily row of d holds the
\* minimum and the maximum of the temperatures of exactly the samples dated d,
\* and as temp_mean, rain_sum and humidity_mean the float64 mean and sum of
\* those samples: the float64 running sum in input order, divided for a mean by
\* the sample count.  The 8-sample scenario yields the float64 values 29.5, 28,
\* 31, 1.7 and 27.5, 26, 29, 2.3.
C1_DailyStatistics ==
    Aggregated =>
        /\ \A d \in SampleDates : \E k \in DailyIdx : RowIsStatsOf(k, d)
        /\ Samples = Scenario => ScenarioRows

\* the scenario has been aggregated
C1_Witness ==
    /\ pc = "done"
    /\ Samples = Scenario
    /\ Len(daily) = 2

\* C2: for a non-empty input in any order, the dates of the daily summary are
\* the distinct input dates in strictly ascending order, one row per date.
C2_DatesAscendingDistinct ==
    /\ (Aggregated /\ Samples # <<>>) =>
          /\ Len(daily) = Cardinality(SampleDates)
          /\ {daily[k].date : k \in DailyIdx} = SampleDates
          /\ \A k \in DailyIdx : \A l \in DailyIdx :
                k < l => daily[k].date < daily[l].date
    /\ (pc = "crashed" /\ err.at = "daily") => Samples = <<>>

C2_Witness ==
    /\ Aggregated
    /\ Len(daily) >= 2
    /\ \E i \in SampleIdx : \E j \in SampleIdx :
          i < j /\ Samples[i].dt > Samples[j].dt /\ SampleDate(i) > SampleDate(j)

\* C3 as stated: the rain_sum values of the daily summary add up to exactly
\* the rain volumes of all input samples, a sample without one counting as 0.
C3_RainConservedExactly ==
    Aggregated =>
        ExactSum(DailyIdx, DailyRain) = ExactSum(SampleIdx, RainValues)

\* C3 as amended: every sample belongs to the date of exactly one row, each
\* rain_sum is the float64 running sum of the rain volumes of exactly the
\* samples of its date (a sample without one counting as 0.0), and the rain_sum
\* values add up to the rain volumes of all input samples up to float64
\* rounding: the two totals differ by at most n * 2^-52 of the input total,
\* n the number of samples.
C3_RainConserved ==
    Aggregated =>
        /\ \A i \in SampleIdx :
              Cardinality({k \in DailyIdx : daily[k].date = SampleDate(i)}) = 1
        /\ \A k \in DailyIdx :
              daily[k].rain_sum = RunningSum(OnDate(daily[k].date), RainValues)
        /\ LET total == ExactSum(SampleIdx, RainValues)
               diff  == DAbs(DSub(ExactSum(DailyIdx, DailyRain), total))
           IN  DLe(diff, DScale(DMulInt(total, Len(Samples)), -52))

\* two dates, a sample without rain, and a date whose rain_sum was rounded
C3_Witness ==
    /\ Aggregated
    /\ Len(daily) >= 2
    /\ \E i \in SampleIdx : Dry(i)
    /\ ExactSum(DailyIdx, DailyRain) # ExactSum(SampleIdx, RainValues)

\* on a date with exactly one sample, the three values are its temperature
SingleSampleRows ==
    \A k \in DailyIdx : \A i \in SampleIdx :
        OnDate(daily[k].date) = {i} =>
            /\ daily[k].temp_min = SampleTemp(i)
            /\ daily[k].temp_max = SampleTemp(i)
            /\ daily[k].temp_mean = FromTenths(SampleTemp(i))

\* C4 as stated: every daily row has temp_min <= temp_mean <= temp_max, and on
\* a date with exactly one sample the three equal that sample's temperature.
C4_MinMeanMaxExact ==
    Aggregated =>
        /\ \A k \in DailyIdx :
              /\ DLe(FromTenths(daily[k].temp_min), daily[k].temp_mean)
              /\ DLe(daily[k].temp_mean, FromTenths(daily[k].temp_max))
        /\ SingleSampleRows

\* the rounding allowance of the mean of n temperatures between lo and hi
\* tenths: n * 2^-52 times the larger magnitude
MeanSlack(lo, hi, n) ==
    LET a == IF lo < 0 THEN -lo ELSE lo
        b == IF hi < 0 THEN -hi ELSE hi
    IN  DScale(DMulInt(FromTenths(IF a >= b THEN a ELSE b), n), -52)

\* C4 as amended: every daily row has temp_min <= temp_max and a temp_mean
\* that lies between them up to float64 rounding (by at most n * 2^-52 of the
\* larger magnitude, n the samples of the date, it may pass either); on a date
\* with exactly one sample the three equal that sample's temperature.
C4_MinMeanMax ==
    Aggregated =>
        /\ \A k \in DailyIdx :
              LET r == daily[k]
                  slack == MeanSlack(r.temp_min, r.temp_max,
                                     Cardinality(OnDate(r.date)))
              IN  /\ r.temp_min <= r.temp_max
                  /\ DLe(DSub(FromTenths(r.temp_min), slack), r.temp_mean)
                  /\ DLe(r.temp_mean, DAddExact(FromTenths(r.temp_max), slack))
        /\ SingleSampleRows

\* a date with one sample, and a date whose mean lies strictly inside
C4_Witness ==
    /\ Aggregated
    /\ \E k \in DailyIdx : Cardinality(OnDate(daily[k].date)) = 1
    /\ \E k \in DailyIdx :
          /\ ~DLe(daily[k].temp_mean, FromTenths(daily[k].temp_min))
          /\ ~DLe(FromTenths(daily[k].temp_max), daily[k].temp_mean)

\* C5: the detail window is the first min(12, n) samples of the input, in
\* input order, none reordered, merged or dropped.
C5_DetailWindowPrefix ==
    Windowed =>
        /\ Len(short) = (IF Len(Samples) < HeadLimit THEN Len(Samples) ELSE HeadLimit)
        /\ \A i \in 1..Len(short) :
              /\ short[i].dt = Samples[i].dt + tz
              /\ short[i].temp = Samples[i].temp
              /\ short[i].humidity = Samples[i].humidity
              /\ short[i].wind = Samples[i].wind
              /\ short[i].rain = SampleRain(i)

C5_Witness ==
    /\ pc = "done"
    /\ Len(Samples) > HeadLimit
    /\ Len(short) = HeadLimit

\* C6: with an empty or absent forecast list, the daily summary and the detail
\* window are empty sequences and neither step ends in an error.
C6_EmptyInputYieldsEmptyOutputs ==
    (fetched.forecast = "ok" /\ Samples = <<>>) =>
        /\ ~(pc = "crashed" /\ err.at \in {"prepare", "daily", "detail"})
        /\ Aggregated => daily = <<>>
        /\ Windowed => short = <<>>

\* every sample has its required fields
RequiredPresent == \A i \in SampleIdx : Samples[i].absent \cap RequiredKeys = {}

\* C7: a sample without a rain volume raises no error; its rain is 0 and it is
\* counted in the temperature and humidity statistics of its date.
C7_MissingRainIsZero ==
    /\ (pc = "crashed" /\ err.at = "prepare") => ~RequiredPresent
    /\ Prepared =>
          /\ Len(df_fore.rows) = Len(Samples)
          /\ \A i \in SampleIdx :
                Dry(i) => /\ df_fore.rows[i].rain = 0
                          /\ df_fore.rows[i].temp = SampleTemp(i)
                          /\ df_fore.rows[i].humidity = SampleHumidity(i)
    /\ Aggregated =>
          \A d \in {SampleDate(i) : i \in {j \in SampleIdx : Dry(j)}} :
              \E k \in DailyIdx :
                  /\ daily[k].date = d
                  /\ daily[k].temp_mean = RunningMean(OnDate(d), TempValues)
                  /\ daily[k].humidity_mean = RunningMean(OnDate(d), HumidityValues)

C7_Witness ==
    /\ Aggregated
    /\ \E i \in SampleIdx : "rain" \in Samples[i].absent
    /\ \E i \in SampleIdx : Samples[i].absent = {"3h"}
    /\ \E i \in SampleIdx : \E j \in SampleIdx :
          Dry(i) /\ ~Dry(j) /\ SampleDate(i) = SampleDate(j)

\* C8: a sample with a missing or malformed required field makes the
\* aggregation fail fast with a MalformedSampleError; no daily summary is
\* produced.
C8_MalformedFailsFast ==
    (fetched.forecast = "ok" /\ \E i \in SampleIdx : ~WellFormed(Samples[i])) =>
        /\ ~Aggregated
        /\ (pc = "crashed" /\ err.at = "prepare") => err.type = "MalformedSampleError"

\* C9: when either fetch fails an error notice is shown and the run halts
\* before the aggregation; the aggregation is reached only after both fetches
\* succeeded.
C9_FetchFailureHalts ==
    /\ (fetched.current \in {"http_error", "error"}
           \/ fetched.forecast \in {"http_error", "error"}) =>
          /\ pc = "stopped"
          /\ notices \cap {"error_http", "error_fetch"} # {}
          /\ df_fore = NoFrame /\ daily = <<>> /\ short = <<>>
          /\ rendered = {}
    /\ (Prepared \/ pc \in {"parse_current", "prepare"}
           \/ (pc = "crashed" /\ err.at # "sidebar")) =>
          /\ fetched.current = "ok"
          /\ fetched.forecast = "ok"

C9_Witness ==
    /\ fetched.current = "ok"
    /\ fetched.forecast = "http_error"
    /\ pc = "stopped"
    /\ "error_http" \in notices

\* C10: with an empty API key a warning is shown and the run stops: no HTTP
\* request is issued, nothing is aggregated, no card, chart or table rendered.
\* A run that ends at line 87 has an empty key and ends without the warning.
C10_EmptyKeyStops ==
    api_key = "" =>
        /\ pc \in {"sidebar", "guard", "stopped"}
        /\ pc = "stopped" => "warning_no_key" \in notices
        /\ requests = 0
        /\ fetched = [current |-> "none", forecast |-> "none"]
        /\ df_fore = NoFrame /\ daily = <<>> /\ short = <<>>
        /\ rendered = {}

====
